---------------------------- MODULE Spec2Model ----------------------------
(***************************************************************************)
(* Model of the acquisition/dispatch pipeline of fad_project.              *)
(*                                                                         *)
(*   src/main/fad_adc.c   adc_init, adc_buffer_init, adc_timer_init,       *)
(*                        adc_timer_start, adc_timer_intr_handler (the     *)
(*                        timer ISR) and adc_hdl_evt (the worker handler). *)
(*                                                                         *)
(* fad_app_work_dispatch (fad_app_core.c), dac_output (fad_dac.c) and the  *)
(* values of ADC_BUFFER_SIZE / adc_algo_size (fad_defs.h) are not part of  *)
(* the sources at hand.  The dispatch queue is modelled from the written   *)
(* design: a bounded FIFO of event records copied by value, with a         *)
(* non-blocking try_enqueue and one worker that dequeues.                  *)
(*                                                                         *)
(* Variables whose comment says "history" record what happened; no code    *)
(* reads them.                                                             *)
(***************************************************************************)
EXTENDS Integers, Naturals, Sequences, FiniteSets, TLC

\* Largest buffer capacity (ADC_BUFFER_SIZE) explored.
MaxCap == 4

\* Number of timer interrupts explored.
MaxTicks == 9

\* Depth of the dispatch queue (queue_capacity of the design).
QueueCap == 2

VARIABLES
    phase,              \* "boot" | "ready" | "running" | "panic"
    ADC_BUFFER_SIZE,    \* capacity C of both ring buffers
    adc_algo_size,      \* block size B
    adc_buffer,         \* "NULL" | "allocated"
    dac_buffer,         \* "NULL" | "allocated"
    adc_buffer_pos,     \* input cursor
    dac_buffer_pos,     \* output cursor
    algo_function,      \* the selected algorithm, "none" before adc_init
    adc_buffer_init_ret,\* what adc_buffer_init returned
    adc_init_ret,       \* what adc_init returned
    isr_registered,     \* timer_isr_callback_add succeeded
    queue,              \* dispatch queue: events enqueued, not yet dequeued
    w_call,             \* <<>> or <<[adc_buff, dac_buff]>>: algorithm call in progress
    log,                \* diagnostics emitted, in order
    ticks,              \* history: number of ISR entries so far
    enqLog,             \* history: cursors and tick number of each successful enqueue
    algoCalls,          \* history: the block pointers of each algorithm invocation
    dropped,            \* history: block-boundary ticks whose event was not enqueued
    last_adc_write,     \* history: index the last ISR entry stored to, -1 if none
    last_dac_read,      \* history: index the last ISR entry emitted from, -1 if none
    w_start,            \* history: value of ticks when the call in progress began
    overrun,            \* history: the ISR emitted from a block whose call was not complete
    attempts,           \* history: ISR entries that took the dispatch branch
    isr_heap_calls      \* history: calls of malloc and free made inside the ISR

pipeVars == << phase, ADC_BUFFER_SIZE, adc_algo_size, adc_buffer, dac_buffer,
           adc_buffer_pos, dac_buffer_pos, algo_function, adc_buffer_init_ret,
           adc_init_ret, isr_registered, queue, w_call, log, ticks, enqLog,
           algoCalls, dropped, last_adc_write, last_dac_read, w_start, overrun,
           attempts, isr_heap_calls >>

\* Variables of src/fad_algorithms/algo_masking.c.
VARIABLES
    m_state,                    \* "static" | "ready" | "active" | "deinit" | "fault"
    s_algo_template_read_size,  \* block length the algorithm reads
    s_algo_total_time,          \* analysis window, a float holding an integer value
    s_algo_max_magnitude,       \* running peak magnitude
    s_algo_fundamental_freq,    \* frequency of the running peak, [num, den]
    s_period,                   \* period parameter
    m_out_written,              \* history: offsets of out_buff the last call stored to
    m_seen,                     \* history: every magnitude compared so far
    m_last_block_max            \* history: largest magnitude of the last call, -1 if none

maskVars == << m_state, s_algo_template_read_size, s_algo_total_time,
               s_algo_max_magnitude, s_algo_fundamental_freq, s_period,
               m_out_written, m_seen, m_last_block_max >>

\* Variables of src/esp_tests/main/main.c.
VARIABLES
    f_data,             \* the buffer handed to find_data_string
    f_called,           \* find_data_string has returned
    f_result,           \* its result as an offset into data, -1 for NULL
    receiving_packet,   \* 0 | 1
    packet_buffer,      \* PACKET_TOTAL_SIZE bytes
    packet_buffer_pos,  \* a char
    h_stream_pos,       \* history: bytes of the stream delivered so far
    h_handled           \* history: for each handle_packet call, the packet the
                        \* buffer held (its number, 0 if it held no whole packet)

findVars == << f_data, f_called, f_result >>

serialVars == << receiving_packet, packet_buffer, packet_buffer_pos,
                 h_stream_pos, h_handled >>

\* The variables of the other parts of the firmware modelled below.
otherVars == << maskVars, findVars, serialVars >>

vars == << pipeVars, otherVars >>

NULL == "NULL"
ALLOCATED == "allocated"
ESP_OK == "ESP_OK"
ESP_ERR_NO_MEM == "ESP_ERR_NO_MEM"
ESP_FAIL == "ESP_FAIL"

NoIndex == 0 - 1

\* The indices of the block of B samples starting at pos.
Block(pos) == pos .. (pos + adc_algo_size - 1)

-----------------------------------------------------------------------------
(* Construction: the file-scope objects are zero-initialised.              *)

InitPipe ==
    /\ phase = "boot"
    /\ ADC_BUFFER_SIZE \in 1 .. MaxCap
    /\ adc_algo_size \in 1 .. ADC_BUFFER_SIZE
    /\ adc_buffer = NULL
    /\ dac_buffer = NULL
    /\ adc_buffer_pos = 0
    /\ dac_buffer_pos = 0
    /\ algo_function = "none"
    /\ adc_buffer_init_ret = "none"
    /\ adc_init_ret = "none"
    /\ isr_registered = FALSE
    /\ queue = << >>
    /\ w_call = << >>
    /\ log = << >>
    /\ ticks = 0
    /\ enqLog = << >>
    /\ algoCalls = << >>
    /\ dropped = 0
    /\ last_adc_write = NoIndex
    /\ last_dac_read = NoIndex
    /\ w_start = 0
    /\ overrun = FALSE
    /\ attempts = 0
    /\ isr_heap_calls = 0

-----------------------------------------------------------------------------
(* adc_buffer_init                                                         *)

\* Variant of InitDacPos: the output cursor starts on the input cursor.
InitDacPos_NoOffset == adc_buffer_pos

\* dac_buffer_pos = ADC_BUFFER_SIZE - adc_algo_size
InitDacPos == ADC_BUFFER_SIZE - adc_algo_size

\* The return value of adc_buffer_init for an allocation outcome.
BufferInitRet(alloc) == IF alloc = "ok" THEN ESP_OK ELSE ESP_ERR_NO_MEM

\* adc_init: ret = adc_buffer_init(); ret = adc_timer_init(); return ret.
AdcInitRet(buf_ret, timer_ret) == timer_ret

(* adc_init, with adc_buffer_init and adc_timer_init inlined.  alloc is    *)
(* the outcome of the two calloc calls, timer_ret the result of            *)
(* timer_isr_callback_add, the only err adc_timer_init returns.            *)
AdcInit ==
    /\ phase = "boot"
    /\ \E alloc \in {"ok", "adc_fail", "dac_fail"}, timer_ret \in {ESP_OK, ESP_FAIL} :
        /\ adc_buffer' = IF alloc = "adc_fail" THEN NULL ELSE ALLOCATED
        /\ dac_buffer' = IF alloc = "ok" THEN ALLOCATED ELSE NULL
        /\ adc_buffer_pos' = IF alloc = "ok" THEN 0 ELSE adc_buffer_pos
        /\ dac_buffer_pos' = IF alloc = "ok" THEN InitDacPos ELSE dac_buffer_pos
        /\ adc_buffer_init_ret' = BufferInitRet(alloc)
        /\ isr_registered' = (timer_ret = ESP_OK)
        /\ adc_init_ret' = AdcInitRet(BufferInitRet(alloc), timer_ret)
    /\ algo_function' = "algo_white"
    /\ phase' = "ready"
    /\ UNCHANGED << ADC_BUFFER_SIZE, adc_algo_size, queue, w_call, log, ticks,
                    enqLog, algoCalls, dropped, last_adc_write, last_dac_read,
                    w_start, overrun >>
    /\ UNCHANGED << attempts, isr_heap_calls >>
    /\ UNCHANGED otherVars

(* adc_timer_start: the timer counts from here on; the ISR runs only if    *)
(* its callback was registered.                                            *)
AdcTimerStart ==
    /\ phase = "ready"
    /\ phase' = "running"
    /\ UNCHANGED << ADC_BUFFER_SIZE, adc_algo_size, adc_buffer, dac_buffer,
                    adc_buffer_pos, dac_buffer_pos, algo_function,
                    adc_buffer_init_ret, adc_init_ret, isr_registered, queue,
                    w_call, log, ticks, enqLog, algoCalls, dropped,
                    last_adc_write, last_dac_read, w_start, overrun >>
    /\ UNCHANGED << attempts, isr_heap_calls >>
    /\ UNCHANGED otherVars

-----------------------------------------------------------------------------
(* The dispatch queue (fad_app_work_dispatch and the worker task's         *)
(* receive), from the written design: try_enqueue(event) -> bool,          *)
(* non-blocking, the event copied by value; dequeue in FIFO order.         *)

QueueFull(q) == Len(q) >= QueueCap

TryEnqueue(q, e) == IF QueueFull(q) THEN q ELSE Append(q, e)

Dequeue(q) == Tail(q)

-----------------------------------------------------------------------------
(* adc_timer_intr_handler                                                  *)

\* Variant of AtBlockBoundary: the test is made on the cursor after the advance.
AtBlockBoundary_OffByOne == (adc_buffer_pos + 1) % adc_algo_size = 0

\* if (adc_buffer_pos % adc_algo_size == 0)
AtBlockBoundary == adc_buffer_pos % adc_algo_size = 0

\* Variant of IsrEvent: the event is built from the cursors after the advance.
IsrEvent_PostAdvance ==
    [adc_pos |-> (adc_buffer_pos + 1) % ADC_BUFFER_SIZE,
     dac_pos |-> (dac_buffer_pos + 1) % ADC_BUFFER_SIZE]

\* params->buff_pos.adc_pos = adc_buffer_pos; params->buff_pos.dac_pos = dac_buffer_pos
IsrEvent == [adc_pos |-> adc_buffer_pos, dac_pos |-> dac_buffer_pos]

\* Variant of NextPos: the cursor is not wrapped.
NextPos_NoWrap(pos) == pos + 1

\* pos = (pos + 1) % ADC_BUFFER_SIZE
NextPos(pos) == (pos + 1) % ADC_BUFFER_SIZE

\* Variant of QueueAfterDispatch: the block-boundary test is missing.
QueueAfterDispatch_EveryTick == TryEnqueue(queue, IsrEvent)

\* The queue after the dispatch step of this entry (the result of
\* fad_app_work_dispatch is not looked at).
QueueAfterDispatch == IF AtBlockBoundary THEN TryEnqueue(queue, IsrEvent) ELSE queue

\* history: the event of this entry was enqueued / was not enqueued
Sent == AtBlockBoundary /\ ~QueueFull(queue)
Lost == AtBlockBoundary /\ QueueFull(queue)

\* history: the dac blocks of the events whose algorithm call has not completed
\* once this entry's dispatch step is done
PendingOut ==
    { QueueAfterDispatch[i].dac_pos : i \in DOMAIN QueueAfterDispatch }
        \cup { w_call[i].dac_buff : i \in DOMAIN w_call }

\* history updates common to every entry of the ISR that gets past malloc
DispatchHistory ==
    /\ enqLog' = IF Sent
                 THEN Append(enqLog, [adc_pos |-> adc_buffer_pos,
                                      dac_pos |-> dac_buffer_pos,
                                      tick |-> ticks])
                 ELSE enqLog
    /\ dropped' = IF Lost THEN dropped + 1 ELSE dropped

\* history: the dispatch branch taken by an entry that gets past malloc calls
\* malloc and free once each
DispatchCalls ==
    /\ attempts' = IF AtBlockBoundary THEN attempts + 1 ELSE attempts
    /\ isr_heap_calls' = IF AtBlockBoundary THEN isr_heap_calls + 2 ELSE isr_heap_calls

(* An entry at a block boundary whose malloc returns NULL: the store       *)
(* params->buff_pos.adc_pos = ... goes through a null pointer; the target  *)
(* has no memory at address 0 and takes a fatal exception.                 *)
IsrAllocFault ==
    /\ phase = "running" /\ isr_registered /\ ticks < MaxTicks
    /\ AtBlockBoundary
    /\ phase' = "panic"
    /\ ticks' = ticks + 1
    /\ last_adc_write' = NoIndex
    /\ last_dac_read' = NoIndex
    /\ UNCHANGED << ADC_BUFFER_SIZE, adc_algo_size, adc_buffer, dac_buffer,
                    adc_buffer_pos, dac_buffer_pos, algo_function,
                    adc_buffer_init_ret, adc_init_ret, isr_registered, queue,
                    w_call, log, enqLog, algoCalls, dropped, w_start, overrun >>
    /\ attempts' = attempts + 1
    /\ isr_heap_calls' = isr_heap_calls + 1
    /\ UNCHANGED otherVars

(* An entry with a buffer that was never allocated: the dispatch step      *)
(* runs, then adc_buffer[adc_buffer_pos] = ... (adc_buffer NULL) or        *)
(* dac_output(dac_buffer, ...) (dac_buffer NULL) faults.                   *)
IsrBufferFault ==
    /\ phase = "running" /\ isr_registered /\ ticks < MaxTicks
    /\ adc_buffer = NULL \/ dac_buffer = NULL
    /\ queue' = QueueAfterDispatch
    /\ DispatchHistory
    /\ phase' = "panic"
    /\ ticks' = ticks + 1
    /\ last_adc_write' = IF adc_buffer = NULL THEN NoIndex ELSE adc_buffer_pos
    /\ last_dac_read' = NoIndex
    /\ UNCHANGED << ADC_BUFFER_SIZE, adc_algo_size, adc_buffer, dac_buffer,
                    adc_buffer_pos, dac_buffer_pos, algo_function,
                    adc_buffer_init_ret, adc_init_ret, isr_registered,
                    w_call, log, algoCalls, w_start, overrun >>
    /\ DispatchCalls
    /\ UNCHANGED otherVars

(* A complete entry: dispatch at a block boundary, store one sample, emit  *)
(* one sample, advance both cursors.                                       *)
IsrTick ==
    /\ phase = "running" /\ isr_registered /\ ticks < MaxTicks
    /\ adc_buffer = ALLOCATED /\ dac_buffer = ALLOCATED
    /\ queue' = QueueAfterDispatch
    /\ DispatchHistory
    /\ last_adc_write' = adc_buffer_pos
    /\ last_dac_read' = dac_buffer_pos
    /\ overrun' = (overrun \/ \E d \in PendingOut : dac_buffer_pos \in Block(d))
    /\ adc_buffer_pos' = NextPos(adc_buffer_pos)
    /\ dac_buffer_pos' = NextPos(dac_buffer_pos)
    /\ ticks' = ticks + 1
    /\ UNCHANGED << phase, ADC_BUFFER_SIZE, adc_algo_size, adc_buffer, dac_buffer,
                    algo_function, adc_buffer_init_ret, adc_init_ret,
                    isr_registered, w_call, log, algoCalls, w_start >>
    /\ DispatchCalls
    /\ UNCHANGED otherVars

-----------------------------------------------------------------------------
(* adc_hdl_evt, run by the worker for each event it dequeues               *)

\* Variant of AdcHdlEvt: the handler reads the live cursors, not the event.
AdcHdlEvt_LiveCursors(data) == [adc_buff |-> adc_buffer_pos, dac_buff |-> dac_buffer_pos]

\* adc_buff = adc_buffer + data->buff_pos.adc_pos;
\* dac_buff = dac_buffer + data->buff_pos.dac_pos   (as offsets from the bases)
AdcHdlEvt(data) == [adc_buff |-> data.adc_pos, dac_buff |-> data.dac_pos]

(* The worker takes the oldest event and enters adc_hdl_evt, which logs    *)
(* and calls algo_function on the two block pointers.                      *)
WorkerDequeue ==
    /\ phase = "running"
    /\ w_call = << >>
    /\ queue # << >>
    /\ queue' = Dequeue(queue)
    /\ log' = Append(log, "Buffer ready")
    /\ w_call' = << AdcHdlEvt(Head(queue)) >>
    /\ algoCalls' = Append(algoCalls, AdcHdlEvt(Head(queue)))
    /\ w_start' = ticks
    /\ UNCHANGED << phase, ADC_BUFFER_SIZE, adc_algo_size, adc_buffer, dac_buffer,
                    adc_buffer_pos, dac_buffer_pos, algo_function,
                    adc_buffer_init_ret, adc_init_ret, isr_registered, ticks,
                    enqLog, dropped, last_adc_write, last_dac_read, overrun >>
    /\ UNCHANGED << attempts, isr_heap_calls >>
    /\ UNCHANGED otherVars

(* algo_function returns and adc_hdl_evt with it.                          *)
WorkerReturn ==
    /\ phase = "running"
    /\ w_call # << >>
    /\ w_call' = << >>
    /\ UNCHANGED << phase, ADC_BUFFER_SIZE, adc_algo_size, adc_buffer, dac_buffer,
                    adc_buffer_pos, dac_buffer_pos, algo_function,
                    adc_buffer_init_ret, adc_init_ret, isr_registered, queue,
                    log, ticks, enqLog, algoCalls, dropped, last_adc_write,
                    last_dac_read, w_start, overrun >>
    /\ UNCHANGED << attempts, isr_heap_calls >>
    /\ UNCHANGED otherVars

-----------------------------------------------------------------------------
(* algo_masking.c                                                          *)

\* static int s_algo_template_read_size = 2048
DefaultReadSize == 2048

\* static int s_algo_sampling_freq = 40000
s_algo_sampling_freq == 40000

\* static int s_period = 30
DefaultPeriod == 30

\* Largest read_size and period handed to algo_masking_init.
MaxRead == 4
MaxPeriod == 2

\* Largest transform size found in the plan algo_masking reads.
MaxFftSize == 6

\* A float as a fraction; den = 0 is +infinity.
FloatZero == [num |-> 0, den |-> 1]
FloatInf == [num |-> 1, den |-> 0]

\* k * 1.0 / t for k >= 1 and an integer-valued float t >= 0
FloatDiv(k, t) == IF t = 0 THEN FloatInf ELSE [num |-> k, den |-> t]

\* s_algo_total_time = s_algo_template_read_size / s_algo_sampling_freq: a
\* division of two ints, evaluated once, on the initial values.
TotalTimeInitial == DefaultReadSize \div s_algo_sampling_freq

\* The (real, imaginary) pairs a bin of the plan's output may hold.
BinValues == { <<0, 0>>, <<1, 0>>, <<0, 2>>, <<3, 4>> }

\* sqrt on the squares that occur
Sqrt(n) == CHOOSE r \in 0 .. n : r * r = n

\* mag = sqrt(pow(output[2k], 2) + pow(output[2k+1], 2))
Magnitude(bin) == Sqrt(bin[1] * bin[1] + bin[2] * bin[2])

\* freq = k * 1.0 / s_algo_total_time
BinFreq(k) == FloatDiv(k, s_algo_total_time)

\* Variant of PeakStep: the comparison is the wrong way round.
PeakStep_Less(peak, k, mag) ==
    IF mag < peak.mag THEN [mag |-> mag, freq |-> BinFreq(k)] ELSE peak

\* if (mag > s_algo_max_magnitude) { s_algo_max_magnitude = mag;
\*                                   s_algo_fundamental_freq = freq; }
PeakStep(peak, k, mag) ==
    IF mag > peak.mag THEN [mag |-> mag, freq |-> BinFreq(k)] ELSE peak

\* for (k = 1; k < size / 2; k++) ...
RECURSIVE ScanBins(_, _, _, _)
ScanBins(peak, k, size, bins) ==
    IF k >= size \div 2
    THEN peak
    ELSE ScanBins(PeakStep(peak, k, Magnitude(bins[k])), k + 1, size, bins)

\* The bins the loop visits for a transform of this size.
BinRange(size) == 1 .. (size \div 2 - 1)

MaxOf(S) == CHOOSE m \in S : \A x \in S : x <= m

InitMask ==
    /\ m_state = "static"
    /\ s_algo_template_read_size = DefaultReadSize
    /\ s_algo_total_time = TotalTimeInitial
    /\ s_algo_max_magnitude = 0
    /\ s_algo_fundamental_freq = FloatZero
    /\ s_period = DefaultPeriod
    /\ m_out_written = {}
    /\ m_seen = {}
    /\ m_last_block_max = NoIndex

(* algo_masking_init: stores read_size and period; the arrays and the plan *)
(* it creates are locals and are gone when it returns.                     *)
AlgoMaskingInit ==
    /\ m_state \in {"static", "deinit"}
    /\ \E read_size \in 1 .. MaxRead, period \in 1 .. MaxPeriod :
        /\ s_algo_template_read_size' = read_size
        /\ s_period' = period
    /\ m_state' = "ready"
    /\ UNCHANGED << s_algo_total_time, s_algo_max_magnitude,
                    s_algo_fundamental_freq, m_out_written, m_seen,
                    m_last_block_max >>
    /\ UNCHANGED << pipeVars, findVars, serialVars >>

(* algo_masking: copies the input block into the plan's input and scans    *)
(* the plan's output for the peak.  No transform is executed and the plan  *)
(* is not the one algo_masking_init created, so its size and output are    *)
(* whatever the memory holds.  out_buff is not stored to.                  *)
AlgoMasking ==
    /\ m_state \in {"ready", "active"}
    /\ \E size \in 0 .. MaxFftSize :
        \E bins \in [BinRange(size) -> BinValues] :
            LET peak == ScanBins([mag |-> s_algo_max_magnitude,
                                  freq |-> s_algo_fundamental_freq],
                                 1, size, bins)
                mags == { Magnitude(bins[k]) : k \in BinRange(size) }
            IN  /\ s_algo_max_magnitude' = peak.mag
                /\ s_algo_fundamental_freq' = peak.freq
                /\ m_seen' = m_seen \cup mags
                /\ m_last_block_max' = IF mags = {} THEN NoIndex ELSE MaxOf(mags)
    /\ m_out_written' = {}
    /\ m_state' = "active"
    /\ UNCHANGED << s_algo_template_read_size, s_algo_total_time, s_period >>
    /\ UNCHANGED << pipeVars, findVars, serialVars >>

(* algo_masking reading through a plan pointer that holds no valid         *)
(* address: a fatal exception.                                             *)
AlgoMaskingFault ==
    /\ m_state \in {"ready", "active"}
    /\ m_state' = "fault"
    /\ UNCHANGED << s_algo_template_read_size, s_algo_total_time,
                    s_algo_max_magnitude, s_algo_fundamental_freq, s_period,
                    m_out_written, m_seen, m_last_block_max >>
    /\ UNCHANGED << pipeVars, findVars, serialVars >>

(* algo_masking_deinit: empty.                                             *)
AlgoMaskingDeinit ==
    /\ m_state \in {"ready", "active"}
    /\ m_state' = "deinit"
    /\ UNCHANGED << s_algo_template_read_size, s_algo_total_time,
                    s_algo_max_magnitude, s_algo_fundamental_freq, s_period,
                    m_out_written, m_seen, m_last_block_max >>
    /\ UNCHANGED << pipeVars, findVars, serialVars >>

-----------------------------------------------------------------------------
(* esp_tests/main/main.c: find_data_string and handle_serial_input         *)

\* #define PACKET_DATA_SIZE 256
PACKET_DATA_SIZE == 256

\* #define PACKET_TOTAL_SIZE (PACKET_DATA_SIZE + 16)
PACKET_TOTAL_SIZE == PACKET_DATA_SIZE + 16

\* The characters of "DATA", as codes.
DATA == << 68, 65, 84, 65 >>

\* Longest buffer handed to find_data_string on its own, and its characters:
\* those of "DATA" and one other.
MaxStr == 5
Alphabet == { DATA[1], DATA[2], DATA[3], 120 }
Strings == UNION { [1 .. n -> Alphabet] : n \in 0 .. MaxStr }

\* d_pos = (data[i] == d[d_pos]) ? d_pos + 1 : 0
MatchStep(c, d_pos) == IF c = DATA[d_pos + 1] THEN d_pos + 1 ELSE 0

\* while (i < size) { ...; if (d_pos == 4) return &data[i - 3]; i++; } return NULL
\* The loop over i = lo .. hi - 1 entered with d_pos: [found, d_pos], found being
\* the offset returned inside the range or NoIndex.  The range is run left to
\* right, split in two to keep the evaluation shallow.
RECURSIVE FindLoop(_, _, _, _)
FindLoop(data, lo, hi, d_pos) ==
    IF lo >= hi
    THEN [found |-> NoIndex, d_pos |-> d_pos]
    ELSE IF hi = lo + 1
    THEN LET d == MatchStep(data[lo + 1], d_pos)
         IN  IF d = 4 THEN [found |-> lo - 3, d_pos |-> d]
                      ELSE [found |-> NoIndex, d_pos |-> d]
    ELSE LET mid == (lo + hi) \div 2
             left == FindLoop(data, lo, mid, d_pos)
         IN  IF left.found # NoIndex THEN left
                                     ELSE FindLoop(data, mid, hi, left.d_pos)

\* find_data_string(data, size), as an offset from data; NoIndex is NULL
find_data_string(data, size) == FindLoop(data, 0, size, 0).found

InitFind ==
    /\ f_data = << >>
    /\ f_called = FALSE
    /\ f_result = NoIndex

InitFindInputs ==
    /\ f_data \in Strings
    /\ f_called = FALSE
    /\ f_result = NoIndex

FindDataString ==
    /\ ~f_called
    /\ f_result' = find_data_string(f_data, Len(f_data))
    /\ f_called' = TRUE
    /\ UNCHANGED << f_data, pipeVars, maskVars, serialVars >>

\* Number of packets in the stream and the chunk sizes it is delivered in.
NPackets == 2
ChunkSizes == { 2, 12, 60, 136, 200 }

\* Packet p: "DATA" followed by bytes of value p.
Packet(p) == [i \in 1 .. PACKET_TOTAL_SIZE |-> IF i <= 4 THEN DATA[i] ELSE p]

\* The stream: packets 1 .. NPackets back to back.
Stream ==
    [j \in 1 .. (NPackets * PACKET_TOTAL_SIZE) |->
        Packet(((j - 1) \div PACKET_TOTAL_SIZE) + 1)[((j - 1) % PACKET_TOTAL_SIZE) + 1]]

\* A value stored in a char (unsigned on the target).
AsChar(n) == n % (2 ^ 8)

\* memcpy(packet_buffer + at, data, n)
Memcpy(buf, at, data, n) ==
    [i \in 1 .. PACKET_TOTAL_SIZE |->
        IF i > at /\ i <= at + n THEN data[i - at] ELSE buf[i]]

\* data + n, size - n
Rest(data, n) == SubSeq(data, n + 1, Len(data))

\* strncmp(data, "DATA", 4) == 0, data being followed by a terminating 0
StartsWithData(data) == Len(data) >= 4 /\ SubSeq(data, 1, 4) = DATA

\* history: the number of the packet a buffer holds, 0 if none
PacketId(buf) == IF \E p \in 1 .. NPackets : buf = Packet(p)
                 THEN CHOOSE p \in 1 .. NPackets : buf = Packet(p)
                 ELSE 0

\* handle_packet((packet *) packet_buffer)
HandlePacket(st) == [st EXCEPT !.handled = Append(@, PacketId(st.buf))]

\* handle_serial_input(data, size) on the state [recv, pos, buf, handled]
RECURSIVE HandleSerialInput(_, _)
HandleSerialInput(st, data) ==
    LET size == Len(data) IN
    IF size = 0 THEN st
    ELSE IF st.recv = 0
    THEN IF StartsWithData(data)
         THEN IF size < PACKET_TOTAL_SIZE
              THEN [st EXCEPT !.recv = 1,
                              !.buf = Memcpy(st.buf, 0, data, size),
                              !.pos = AsChar(size)]
              ELSE HandleSerialInput(
                       HandlePacket([st EXCEPT !.buf = Memcpy(st.buf, 0, data,
                                                              PACKET_TOTAL_SIZE)]),
                       Rest(data, PACKET_TOTAL_SIZE))
         ELSE LET at == find_data_string(data, size)
              IN  IF at # NoIndex
                  THEN HandleSerialInput(st, SubSeq(data, at + 1,
                                                    at + (size - AsChar(at))))
                  ELSE st
    ELSE LET room_to_copy == PACKET_TOTAL_SIZE - st.pos
         IN  IF size >= room_to_copy
             THEN HandleSerialInput(
                      [HandlePacket([st EXCEPT !.buf = Memcpy(st.buf, st.pos, data,
                                                              room_to_copy)])
                          EXCEPT !.recv = 0],
                      Rest(data, room_to_copy))
             ELSE [st EXCEPT !.buf = Memcpy(st.buf, st.pos, data, size),
                             !.pos = AsChar(st.pos + size)]

InitSerial ==
    /\ receiving_packet = 0
    /\ packet_buffer = [i \in 1 .. PACKET_TOTAL_SIZE |-> 0]
    /\ packet_buffer_pos = 0
    /\ h_stream_pos = 0
    /\ h_handled = << >>

\* The sizes the next chunk may have: one of ChunkSizes, or all that is left.
NextChunkSizes ==
    LET left == Len(Stream) - h_stream_pos
    IN  { n \in ChunkSizes : n <= left }
            \cup (IF left > 0 /\ left < PACKET_TOTAL_SIZE THEN {left} ELSE {})

(* One call of handle_serial_input with the next chunk of the stream.      *)
DeliverChunk ==
    \E n \in NextChunkSizes :
        LET st == HandleSerialInput(
                      [recv |-> receiving_packet, pos |-> packet_buffer_pos,
                       buf |-> packet_buffer, handled |-> h_handled],
                      SubSeq(Stream, h_stream_pos + 1, h_stream_pos + n))
        IN  /\ receiving_packet' = st.recv
            /\ packet_buffer_pos' = st.pos
            /\ packet_buffer' = st.buf
            /\ h_handled' = st.handled
            /\ h_stream_pos' = h_stream_pos + n
            /\ UNCHANGED << pipeVars, maskVars, findVars >>

-----------------------------------------------------------------------------

\* A pipeline that is not started, for the specifications of the other parts.
PipeIdle == InitPipe /\ ADC_BUFFER_SIZE = 1

Init == InitPipe /\ InitMask /\ InitFind /\ InitSerial

Next ==
    \/ AdcInit
    \/ AdcTimerStart
    \/ IsrAllocFault
    \/ IsrBufferFault
    \/ IsrTick
    \/ WorkerDequeue
    \/ WorkerReturn

Spec == Init /\ [][Next]_vars

InitMasking == PipeIdle /\ InitMask /\ InitFind /\ InitSerial

NextMasking ==
    \/ AlgoMaskingInit
    \/ AlgoMasking
    \/ AlgoMaskingFault
    \/ AlgoMaskingDeinit

SpecMasking == InitMasking /\ [][NextMasking]_vars

InitFinding == PipeIdle /\ InitMask /\ InitFindInputs /\ InitSerial

NextFinding == FindDataString

SpecFinding == InitFinding /\ [][NextFinding]_vars

InitSerialInput == PipeIdle /\ InitMask /\ InitFind /\ InitSerial

NextSerialInput == DeliverChunk

SpecSerialInput == InitSerialInput /\ [][NextSerialInput]_vars

-----------------------------------------------------------------------------
(* Properties                                                              *)

\* The configuration has the capacity a multiple of the block size.
Divisible == ADC_BUFFER_SIZE % adc_algo_size = 0

\* The buffer holds at least two blocks, so that the block the worker is
\* handed can differ from the block the ISR is on.
TwoBlocks == 2 * adc_algo_size <= ADC_BUFFER_SIZE

\* adc_buffer_init ran to its end: both buffers allocated, both cursors set.
BuffersReady == adc_buffer_init_ret = ESP_OK

\* The block pointers adc_buffer + adc_pos, dac_buffer + dac_pos of a logged enqueue.
PointersOf(e) == [adc_buff |-> e.adc_pos, dac_buff |-> e.dac_pos]

\* The number of diagnostics of one kind emitted so far.
Reported(kind) == Cardinality({ i \in DOMAIN log : log[i] = kind })

\* C1: with C a multiple of B, in every state between two ISR entries, from
\* the state adc_buffer_init leaves onward, the output cursor is exactly B
\* behind the input cursor modulo C.
C1_CursorOffset ==
    (BuffersReady /\ Divisible)
        => dac_buffer_pos = (adc_buffer_pos - adc_algo_size) % ADC_BUFFER_SIZE

\* C1 witness: the input cursor has wrapped to the start of the buffer and
\* moved on, while the output cursor is still in the last block.
C1_Witness ==
    /\ BuffersReady /\ Divisible
    /\ adc_algo_size < ADC_BUFFER_SIZE
    /\ ticks > ADC_BUFFER_SIZE
    /\ adc_buffer_pos > 0 /\ adc_buffer_pos < adc_algo_size
    /\ dac_buffer_pos > adc_buffer_pos

\* C2: while the worker runs the algorithm on an event, and until the output
\* cursor re-enters the event's output block (C ticks after the enqueue), no
\* ISR entry stores into the event's input block or emits from its output block.
C2_ExclusiveBlocks ==
    ( /\ BuffersReady /\ Divisible /\ TwoBlocks
      /\ w_call # << >>
      /\ ticks > w_start
      /\ (ticks - 1) - enqLog[Len(algoCalls)].tick < ADC_BUFFER_SIZE )
        => /\ last_adc_write \notin Block(w_call[1].adc_buff)
           /\ last_dac_read \notin Block(w_call[1].dac_buff)

\* C3: for every event, at least B ticks lie between the tick that enqueued
\* it and the first tick that emits a sample of the output block it names.
C3_BlockPeriodBudget ==
    (BuffersReady /\ Divisible /\ TwoBlocks)
        => \A i \in DOMAIN enqLog :
              ( /\ last_dac_read \in Block(enqLog[i].dac_pos)
                /\ ticks - 1 >= enqLog[i].tick )
                  => (ticks - 1) - enqLog[i].tick >= adc_algo_size

\* C4: the worker's invocations see the events in the order the ISR enqueued
\* them: the i-th invocation is on the blocks of the i-th successful enqueue,
\* whatever was dropped in between.
C4_DispatchFifo ==
    \A i \in DOMAIN algoCalls :
        /\ i <= Len(enqLog)
        /\ algoCalls[i] = PointersOf(enqLog[i])

\* C4 witness: three invocations, on different blocks, with a drop in between.
C4_Witness ==
    /\ Len(algoCalls) >= 3
    /\ dropped >= 1
    /\ algoCalls[1] # algoCalls[2]
    /\ algoCalls[2] # algoCalls[3]

\* C5: every ISR entry on allocated buffers runs to completion: it stores one
\* input sample, emits one output sample and advances both cursors by one
\* modulo C, whatever the state of the queue.
C5_IsrNeverStalls ==
    [][ (ticks' = ticks + 1 /\ adc_buffer = ALLOCATED /\ dac_buffer = ALLOCATED)
            => /\ phase' = "running"
               /\ last_adc_write' = adc_buffer_pos
               /\ last_dac_read' = dac_buffer_pos
               /\ adc_buffer_pos' = (adc_buffer_pos + 1) % ADC_BUFFER_SIZE
               /\ dac_buffer_pos' = (dac_buffer_pos + 1) % ADC_BUFFER_SIZE ]_vars

\* C6: the drops counted by the diagnostics equal the number of block-boundary
\* ticks whose event was not enqueued.
C6_DropsCounted == Reported("dispatch dropped") = dropped

\* C7: every enqueued event is consumed exactly once: each is either still
\* queued, unchanged, or has caused exactly one algorithm invocation, and the
\* invocation in progress is on the pointers captured at the enqueuing tick.
C7_ConsumedOnce ==
    /\ Len(algoCalls) + Len(queue) = Len(enqLog)
    /\ Len(log) = Len(algoCalls)
    /\ \A i \in DOMAIN queue :
          AdcHdlEvt(queue[i]) = PointersOf(enqLog[Len(algoCalls) + i])
    /\ \A i \in DOMAIN w_call :
          w_call[i] = PointersOf(enqLog[Len(algoCalls)])

\* C7 witness: a second invocation is in progress, ticks have run since it
\* began and moved the cursors off its blocks, and another event waits.
C7_Witness ==
    /\ Len(algoCalls) >= 2
    /\ w_call # << >>
    /\ ticks > w_start
    /\ adc_buffer_pos \notin Block(w_call[1].adc_buff)
    /\ Len(queue) >= 1

\* C8: if a buffer allocation fails in adc_buffer_init, adc_init returns an
\* error, the ISR is not set up and never runs.
C8_AllocFailureFatal ==
    (adc_buffer_init_ret = ESP_ERR_NO_MEM)
        => (adc_init_ret # ESP_OK /\ ~isr_registered /\ ticks = 0)

\* C9: for a capacity that is not a multiple of the block size, adc_init fails
\* and no ISR entry ever runs.
C9_MismatchRejected ==
    (phase # "boot" /\ ~Divisible) => (adc_init_ret # ESP_OK /\ ticks = 0)

\* C10: whenever the ISR has emitted from an output block whose algorithm call
\* was not complete, a deadline miss has been reported.
C10_DeadlineMissReported ==
    (BuffersReady /\ Divisible /\ TwoBlocks /\ overrun)
        => Reported("deadline miss") > 0

\* A block start that is a multiple of B and whose B samples end inside the buffer.
Aligned(pos) ==
    /\ pos >= 0
    /\ pos % adc_algo_size = 0
    /\ pos + adc_algo_size <= ADC_BUFFER_SIZE

\* C12: with C a multiple of B, every event the ISR produces and every block
\* the worker is called on starts at a multiple of B and ends inside the buffer.
C12_BlocksInsideBuffer ==
    Divisible
        => /\ \A i \in DOMAIN queue :
                Aligned(queue[i].adc_pos) /\ Aligned(queue[i].dac_pos)
           /\ \A i \in DOMAIN algoCalls :
                Aligned(algoCalls[i].adc_buff) /\ Aligned(algoCalls[i].dac_buff)

\* C12 witness: the worker has been called on the last block of the buffer,
\* the one that ends at the wraparound point, after the cursors wrapped.
C12_Witness ==
    /\ Divisible /\ TwoBlocks /\ adc_algo_size >= 2
    /\ Len(algoCalls) >= 3
    /\ \E i \in DOMAIN algoCalls :
          algoCalls[i].adc_buff + adc_algo_size = ADC_BUFFER_SIZE

\* C13: the ISR makes no heap allocation or release on any entry.
C13_IsrNeverAllocates == isr_heap_calls = 0

\* C14: with C a multiple of B, both cursors are in [0, C) in every state, and
\* so is every index the ISR stored to or emitted from.
C14_CursorsInRange ==
    Divisible
        => /\ adc_buffer_pos \in 0 .. (ADC_BUFFER_SIZE - 1)
           /\ dac_buffer_pos \in 0 .. (ADC_BUFFER_SIZE - 1)
           /\ last_adc_write < ADC_BUFFER_SIZE
           /\ last_dac_read < ADC_BUFFER_SIZE

\* C14 witness: the input cursor has just wrapped from C - 1 to 0.
C14_Witness ==
    /\ BuffersReady /\ Divisible
    /\ adc_algo_size < ADC_BUFFER_SIZE
    /\ ticks >= ADC_BUFFER_SIZE
    /\ last_adc_write = ADC_BUFFER_SIZE - 1
    /\ adc_buffer_pos = 0

\* C15: with C a multiple of B, the entries that attempt a dispatch are the
\* first and then every B-th (those whose input cursor at entry is a multiple
\* of B), and each event carries the cursors as they were at entry, before the
\* advance: those of tick t are t mod C and (t - B) mod C.
C15_DispatchAtBoundary ==
    (BuffersReady /\ Divisible)
        => /\ attempts = (ticks + adc_algo_size - 1) \div adc_algo_size
           /\ \A i \in DOMAIN queue :
                LET t == enqLog[Len(algoCalls) + i].tick
                IN  /\ t % adc_algo_size = 0
                    /\ queue[i] = [adc_pos |-> t % ADC_BUFFER_SIZE,
                                   dac_pos |-> (t - adc_algo_size) % ADC_BUFFER_SIZE]

\* C15 witness: three dispatch attempts made, the cursor in the middle of a
\* block, an event waiting.
C15_Witness ==
    /\ BuffersReady /\ Divisible
    /\ adc_algo_size >= 2
    /\ attempts >= 3
    /\ ticks % adc_algo_size # 0
    /\ Len(queue) >= 1

\* C11: after algo_masking_init, before the first algo_masking call that
\* follows it, the running peak state is zero, whatever was processed before
\* the preceding algo_masking_deinit.
C11_NoResidualState ==
    (m_state = "ready")
        => (s_algo_max_magnitude = 0 /\ s_algo_fundamental_freq = FloatZero)

\* C16: the peak magnitude never decreases, the peak frequency changes only
\* in a step in which the magnitude strictly increases, and after each call
\* the magnitude is the largest of any bin scanned so far (over all blocks),
\* held with the frequency computed for a bin.
C16_RunningMaximum ==
    /\ [](/\ s_algo_max_magnitude = MaxOf(m_seen \cup {0})
          /\ (s_algo_max_magnitude > 0
                => \E k \in BinRange(MaxFftSize) : s_algo_fundamental_freq = BinFreq(k)))
    /\ [][ /\ s_algo_max_magnitude' >= s_algo_max_magnitude
           /\ (s_algo_fundamental_freq' # s_algo_fundamental_freq
                 => s_algo_max_magnitude' > s_algo_max_magnitude) ]_vars

\* C16 witness: the last block's largest magnitude was below the peak kept
\* from an earlier block.
C16_Witness ==
    /\ m_state = "active"
    /\ m_last_block_max > 0
    /\ m_last_block_max < s_algo_max_magnitude

\* C17: after initialization with block size B the analysis window is B / R,
\* that is total_time * R = B (so it is not zero and bin k gets k * R / B).
C17_AnalysisWindow ==
    (m_state \in {"ready", "active"})
        => s_algo_total_time * s_algo_sampling_freq = s_algo_template_read_size

\* C18: after a call of algo_masking every one of the B samples of the output
\* block has been stored to by that call.
C18_OutputFilled ==
    (m_state = "active")
        => m_out_written = 0 .. (s_algo_template_read_size - 1)

\* The offset of the first occurrence of "DATA" in data, NoIndex if there is none.
FirstOccurrence(data) ==
    LET at == { i \in 0 .. (Len(data) - 4) : SubSeq(data, i + 1, i + 4) = DATA }
    IN  IF at = {} THEN NoIndex ELSE CHOOSE i \in at : \A j \in at : i <= j

\* C19: find_data_string returns the first occurrence of "DATA" in
\* data[0 .. size), and NULL exactly when there is none.
C19_FindsFirstOccurrence ==
    f_called => f_result = FirstOccurrence(f_data)

\* C20: however the stream is cut into chunks, once k packets have been
\* delivered in full handle_packet has been called exactly k times, the i-th
\* time with packet_buffer holding the i-th packet.
C20_ChunkingIndependent ==
    h_handled = [i \in 1 .. (h_stream_pos \div PACKET_TOTAL_SIZE) |-> i]

=============================================================================
